---- MODULE Spec2Model ----
(***************************************************************************)
(* Options Tracker: the Dashboard component's trade list, quote mapping    *)
(* and price refresh cycle (frontend/src/components/Dashboard.js).         *)
(*                                                                         *)
(* One Dashboard instance is modelled from the moment it is mounted (its   *)
(* first fetchTrades request in flight) until after it is unmounted.  A    *)
(* React state update together with the re-render and the effect it        *)
(* triggers is one step; every await is a step boundary.                    *)
(***************************************************************************)
EXTENDS Integers, Sequences, FiniteSets, TLC

\* ---------------------------------------------------------------- bounds
MaxCycles == 2
MaxOps == 1

\* ---------------------------------------------------------------- inputs
\* "AAPL" is a key of the mockPrices table, "XYZ" is not.
Tickers == {"AAPL", "XYZ"}

\* Ticker typed into the add-trade form.
FormTickers == {"XYZ"}

\* Prices the stock-price endpoint may answer with.
ApiPrices == {100}

\* Trades the backend already holds for the user when the Dashboard mounts.
InitServerLists ==
    { <<>>,
      << [id |-> 201, ticker |-> "AAPL"], [id |-> 202, ticker |-> "XYZ"],
         [id |-> 203, ticker |-> "AAPL"] >> }

VARIABLES
    mounted,        \* the Dashboard instance is mounted
    loading,        \* useState(true), Dashboard.js:19
    trades,         \* useState([]), Dashboard.js:17
    stockPrices,    \* useState({}), Dashboard.js:18
    intervals,      \* active setInterval timers, each with the trades it closed over
    cycles,         \* every fetchStockPrices invocation, in start order
    installedBy,    \* index in cycles of the invocation whose setStockPrices took effect last
    pendingGets,    \* fetchTrades requests in flight
    submits,        \* handleSubmit invocations awaiting their POST
    deletes,        \* handleDelete invocations awaiting their DELETE
    localTrades,    \* localStorage item trades_<userId>: <<>> when unset, <<list>> when set
    serverTrades,   \* the backend's trade documents of the user
    nextId,         \* stands for Date.now() in trade ids
    nOps,           \* handleSubmit and handleDelete invocations so far
    clsTrade,       \* the trade of a table row being rendered
    clsPrice,       \* its currentPrice: <<>> when undefined, <<p>> for the number p
    clsStatus,      \* the alertStatus computed for the row
    formData,       \* useState of the add-trade form, Dashboard.js:24
    dialogOpen,     \* useState(false), Dashboard.js:20
    toast,          \* the toast.error message on screen, "" when there is none
    token,          \* App: useState(localStorage token), <<>> for null
    userId,         \* App: useState(localStorage userId), <<>> for null
    isGuest,        \* App: useState(false)
    appLoading,     \* App: loading, useState(true)
    guestFetches,   \* guest-token requests in flight
    registers,      \* register requests in flight
    lsToken,        \* localStorage item token, <<>> when unset
    lsUserId,       \* localStorage item userId, <<>> when unset
    now,            \* stands for Date.now() in guest ids
    nLogins         \* register requests sent so far

dashVars == << mounted, loading, trades, stockPrices, intervals, cycles, installedBy,
              pendingGets, submits, deletes, localTrades, serverTrades, nextId, nOps >>

clsVars == << clsTrade, clsPrice, clsStatus >>

formVars == << formData, dialogOpen, toast >>

appVars == << token, userId, isGuest, appLoading, guestFetches, registers,
             lsToken, lsUserId, now, nLogins >>

\* What the Dashboard's handlers and refresh cycle leave alone.  The add-trade
\* form is modelled in SpecForm: SubmitStart stands for a valid submission.
dashFrame == << clsVars, formVars, appVars >>

vars == << mounted, loading, trades, stockPrices, intervals, cycles, installedBy,
           pendingGets, submits, deletes, localTrades, serverTrades, nextId, nOps,
           clsVars, formVars, appVars >>

\* ------------------------------------------------------------- helpers
EmptyMap == [t \in {} |-> 0]

\* formData as useState creates it and as handleSubmit resets it.  typed is
\* the text last typed into the ticker input, before onChange's toUpperCase.
EmptyForm == [ticker |-> "", typed |-> "", strike_price |-> "", expiry_date |-> ""]

\* The form is closed and untouched.
FormIdle ==
    /\ formData = EmptyForm
    /\ dialogOpen = FALSE
    /\ toast = ""

\* App shows the Dashboard of a guest and has nothing in flight.
AppIdle ==
    /\ token = <<"guest_temp">>
    /\ userId = <<"guest", 0>>
    /\ isGuest = TRUE
    /\ appLoading = FALSE
    /\ guestFetches = 0
    /\ registers = 0
    /\ lsToken = <<>>
    /\ lsUserId = <<"guest", 0>>
    /\ now = 1
    /\ nLogins = 0

\* No table row is being rendered.
ClsIdle ==
    /\ clsTrade = [trade_type |-> "put", strike_price |-> 10000]
    /\ clsPrice = <<>>
    /\ clsStatus = [level |-> "none", message |-> "Price unavailable"]

Put(m, k, v) == [x \in (DOMAIN m) \cup {k} |-> IF x = k THEN v ELSE m[x]]

Range(s) == { s[i] : i \in 1..Len(s) }

RECURSIVE Dedupe(_, _)
Dedupe(s, seen) ==
    IF s = <<>> THEN <<>>
    ELSE IF Head(s) \in seen THEN Dedupe(Tail(s), seen)
         ELSE <<Head(s)>> \o Dedupe(Tail(s), seen \cup {Head(s)})

TickerList(tr) == [i \in 1..Len(tr) |-> tr[i].ticker]

\* A plausible slip: no Set, one request per trade.
UniqueTickersNoSet(tr) == TickerList(tr)

\* [...new Set(trades.map(t => t.ticker))]: first-occurrence order.
UniqueTickers(tr) == Dedupe(TickerList(tr), {})

\* The mockPrices table, rounded to whole units.
MockBase == [t \in {"AAPL"} |-> 176]

\* Values the catch block can produce for a ticker: base * (1 +/- 2%) for a
\* known ticker, Math.random() * 200 + 50 otherwise (one representative each).
MockQuotes(t) == IF t \in DOMAIN MockBase THEN {172} ELSE {249}

\* A plausible slip: the failed ticker is left out of the mapping.
CatchStoreAbsent(prices, t, m) == prices

\* catch block: prices[ticker] = <mock value>
CatchStore(prices, t, m) == Put(prices, t, m)

\* !currentPrice for currentPrice = stockPrices[trade.ticker]
PriceUnavailable(sp, t) == t \notin DOMAIN sp \/ sp[t] = 0

\* ------------------------------------------------- fetchStockPrices state
\* A fetchStockPrices invocation right after its synchronous prefix: the
\* distinct tickers are computed, prices = {}, and the request for the first
\* ticker is in flight (or the loop body never runs).
NewCycle(origin, tr) ==
    LET tk == UniqueTickers(tr) IN
    [ origin    |-> origin,
      closure   |-> tr,
      tickers   |-> tk,
      idx       |-> IF tk = <<>> THEN 0 ELSE 1,
      pc        |-> IF tk = <<>> THEN "done" ELSE "await",
      prices    |-> EmptyMap,
      failed    |-> {},
      requested |-> IF tk = <<>> THEN <<>> ELSE <<tk[1]>>,
      stale     |-> FALSE ]     \* running, and started before the cycle was stopped

\* The effect cleanup ran: every invocation still running predates the stop.
MarkStale(cs) == [i \in 1..Len(cs) |-> [cs[i] EXCEPT !.stale = (cs[i].pc # "done")]]

\* A plausible slip: the effect has no cleanup, the old interval keeps running.
EffectIntervalsNoClear(new) == IF Len(new) > 0 THEN Append(intervals, new) ELSE intervals

\* A plausible slip: the interval is only created from the second trade on.
EffectIntervalsLate(new) == IF Len(new) > 1 THEN <<new>> ELSE <<>>

\* useEffect[trades]: the previous run's cleanup clears its interval, then a
\* new interval is created when trades.length > 0.
EffectIntervals(new) == IF Len(new) > 0 THEN <<new>> ELSE <<>>

\* A plausible slip: the effect only arms the timer, no immediate fetch.
EffectCyclesNoFetch(new) == IF Len(intervals) > 0 THEN MarkStale(cycles) ELSE cycles

\* useEffect[trades]: fetchStockPrices() is called right after setInterval.
EffectCycles(new) ==
    LET old == IF Len(intervals) > 0 THEN MarkStale(cycles) ELSE cycles IN
    IF Len(new) > 0 THEN Append(old, NewCycle("effect", new)) ELSE old

\* setTrades(new) followed by the re-render and the [trades] effect.  A state
\* update of an unmounted component is dropped.
SetTrades(new) ==
    IF mounted
    THEN /\ trades' = new
         /\ intervals' = EffectIntervals(new)
         /\ cycles' = EffectCycles(new)
    ELSE UNCHANGED << trades, intervals, cycles >>

\* Bound on the invocations: a setTrades that would start one more is held back.
CanSet(new) == ~mounted \/ Len(new) = 0 \/ Len(cycles) < MaxCycles

\* fetchStockPrices() called with the trades of the given closure.
StartFetch(origin, tr) ==
    LET c == NewCycle(origin, tr) IN
    /\ cycles' = Append(cycles, c)
    /\ IF c.pc = "done"
       THEN stockPrices' = c.prices /\ installedBy' = Len(cycles) + 1
       ELSE UNCHANGED << stockPrices, installedBy >>

\* A plausible slip: every iteration publishes the mapping built so far.
AdvanceFieldByField(i, np, nf) ==
    LET c == cycles[i] IN
    /\ IF c.idx < Len(c.tickers)
       THEN cycles' = [cycles EXCEPT ![i] =
                [c EXCEPT !.prices = np, !.failed = nf, !.idx = c.idx + 1,
                          !.requested = Append(c.requested, c.tickers[c.idx + 1])]]
       ELSE cycles' = [cycles EXCEPT ![i] =
                [c EXCEPT !.prices = np, !.failed = nf, !.pc = "done", !.stale = FALSE]]
    /\ IF mounted
       THEN stockPrices' = np /\ installedBy' = i
       ELSE UNCHANGED << stockPrices, installedBy >>

\* End of one loop iteration: request the next ticker, or leave the loop and
\* call setStockPrices(prices).
Advance(i, np, nf) ==
    LET c == cycles[i] IN
    IF c.idx < Len(c.tickers)
    THEN /\ cycles' = [cycles EXCEPT ![i] =
                [c EXCEPT !.prices = np, !.failed = nf, !.idx = c.idx + 1,
                          !.requested = Append(c.requested, c.tickers[c.idx + 1])]]
         /\ UNCHANGED << stockPrices, installedBy >>
    ELSE /\ cycles' = [cycles EXCEPT ![i] =
                [c EXCEPT !.prices = np, !.failed = nf, !.pc = "done", !.stale = FALSE]]
         /\ IF mounted
            THEN stockPrices' = np /\ installedBy' = i
            ELSE UNCHANGED << stockPrices, installedBy >>

\* ------------------------------------------------------------------ Init
\* The Dashboard has just been mounted with a truthy userId: the [userId]
\* effect has called fetchTrades(), whose GET is in flight.
Init ==
    /\ mounted = TRUE
    /\ loading = TRUE
    /\ trades = <<>>
    /\ stockPrices = EmptyMap
    /\ intervals = <<>>
    /\ cycles = <<>>
    /\ installedBy = 0
    /\ pendingGets = 1
    /\ submits = {}
    /\ deletes = {}
    /\ localTrades = <<>>
    /\ serverTrades \in InitServerLists
    /\ nextId = 1
    /\ nOps = 0
    /\ ClsIdle
    /\ FormIdle
    /\ AppIdle

\* --------------------------------------------------------- fetchTrades
\* GET /trades answered: setTrades(response.data.trades), backup, loading off.
FetchTradesOk ==
    /\ pendingGets > 0
    /\ CanSet(serverTrades)
    /\ pendingGets' = pendingGets - 1
    /\ SetTrades(serverTrades)
    /\ localTrades' = <<serverTrades>>
    /\ loading' = IF mounted THEN FALSE ELSE loading
    /\ UNCHANGED << mounted, stockPrices, installedBy, submits, deletes,
                    serverTrades, nextId, nOps,
                    dashFrame >>

\* GET /trades failed: fall back to the localStorage copy, or to [].
FetchTradesFail ==
    /\ pendingGets > 0
    /\ CanSet(IF localTrades # <<>> THEN localTrades[1] ELSE <<>>)
    /\ pendingGets' = pendingGets - 1
    /\ SetTrades(IF localTrades # <<>> THEN localTrades[1] ELSE <<>>)
    /\ loading' = IF mounted THEN FALSE ELSE loading
    /\ UNCHANGED << mounted, stockPrices, installedBy, submits, deletes,
                    localTrades, serverTrades, nextId, nOps,
                    dashFrame >>

\* --------------------------------------------------------- handleSubmit
\* The form is valid: newTrade is built and the POST is sent.  The handler
\* keeps the trades of the render it was created in.
SubmitStart(tk) ==
    /\ mounted /\ ~loading
    /\ nOps < MaxOps
    /\ submits' = submits \cup
          { [closure |-> trades, newTrade |-> [id |-> nextId, ticker |-> tk]] }
    /\ nextId' = nextId + 1
    /\ nOps' = nOps + 1
    /\ UNCHANGED << mounted, loading, trades, stockPrices, intervals, cycles,
                    installedBy, pendingGets, deletes, localTrades, serverTrades,
                    dashFrame >>

\* The POST settled (ok or not): append newTrade to the closure's trades,
\* setTrades, write localStorage, then call fetchTrades().
SubmitFinish(s, ok) ==
    /\ s \in submits
    /\ CanSet(Append(s.closure, s.newTrade))
    /\ submits' = submits \ {s}
    /\ serverTrades' = IF ok
         THEN Append(serverTrades, [id |-> 100 + s.newTrade.id, ticker |-> s.newTrade.ticker])
         ELSE serverTrades
    /\ SetTrades(Append(s.closure, s.newTrade))
    /\ localTrades' = << Append(s.closure, s.newTrade) >>
    /\ pendingGets' = pendingGets + 1
    /\ UNCHANGED << mounted, loading, stockPrices, installedBy, deletes, nextId, nOps,
                    dashFrame >>

\* --------------------------------------------------------- handleDelete
DeleteStart(id) ==
    /\ mounted /\ ~loading
    /\ \E i \in 1..Len(trades) : trades[i].id = id
    /\ nOps < MaxOps
    /\ nOps' = nOps + 1
    /\ deletes' = deletes \cup { [closure |-> trades, id |-> id] }
    /\ UNCHANGED << mounted, loading, trades, stockPrices, intervals, cycles,
                    installedBy, pendingGets, submits, localTrades, serverTrades,
                    nextId,
                    dashFrame >>

\* The DELETE settled (ok or not): filter the closure's trades, setTrades,
\* write localStorage.
DeleteFinish(d, ok) ==
    /\ d \in deletes
    /\ CanSet(SelectSeq(d.closure, LAMBDA t : t.id # d.id))
    /\ deletes' = deletes \ {d}
    /\ serverTrades' = IF ok THEN SelectSeq(serverTrades, LAMBDA t : t.id # d.id)
                       ELSE serverTrades
    /\ SetTrades(SelectSeq(d.closure, LAMBDA t : t.id # d.id))
    /\ localTrades' = << SelectSeq(d.closure, LAMBDA t : t.id # d.id) >>
    /\ UNCHANGED << mounted, loading, stockPrices, installedBy, pendingGets,
                    submits, nextId, nOps,
                    dashFrame >>

\* ------------------------------------------------------- refresh cycle
\* The 15000 ms interval fires: its callback calls the fetchStockPrices of
\* the render in which the effect ran.
Tick ==
    /\ Len(cycles) < MaxCycles
    /\ \E k \in 1..Len(intervals) : StartFetch("timer", intervals[k])
    /\ UNCHANGED << mounted, loading, trades, intervals, pendingGets, submits,
                    deletes, localTrades, serverTrades, nextId, nOps,
                    dashFrame >>

\* A plausible slip: the button handler also re-arms the interval.
ManualRefreshRearm ==
    /\ mounted /\ ~loading
    /\ Len(cycles) < MaxCycles
    /\ StartFetch("manual", trades)
    /\ intervals' = Append(intervals, trades)
    /\ UNCHANGED << mounted, loading, trades, pendingGets, submits,
                    deletes, localTrades, serverTrades, nextId, nOps,
                    dashFrame >>

\* refresh-button onClick={fetchStockPrices}
ManualRefresh ==
    /\ mounted /\ ~loading
    /\ Len(cycles) < MaxCycles
    /\ StartFetch("manual", trades)
    /\ UNCHANGED << mounted, loading, trades, intervals, pendingGets, submits,
                    deletes, localTrades, serverTrades, nextId, nOps,
                    dashFrame >>

\* The stock-price request of invocation i answered with price p.
FetchOk(i, p) ==
    /\ i \in 1..Len(cycles)
    /\ cycles[i].pc = "await"
    /\ LET c == cycles[i] IN
       Advance(i, Put(c.prices, c.tickers[c.idx], p), c.failed)
    /\ UNCHANGED << mounted, loading, trades, intervals, pendingGets, submits,
                    deletes, localTrades, serverTrades, nextId, nOps,
                    dashFrame >>

\* A plausible slip: the try/catch encloses the loop, so a failure ends it.
FetchFailAbort(i, m) ==
    /\ i \in 1..Len(cycles)
    /\ cycles[i].pc = "await"
    /\ m \in MockQuotes(cycles[i].tickers[cycles[i].idx])
    /\ cycles' = [cycles EXCEPT ![i] =
            [@ EXCEPT !.pc = "done", !.stale = FALSE,
                      !.failed = @ \cup {cycles[i].tickers[cycles[i].idx]}]]
    /\ UNCHANGED << mounted, loading, trades, stockPrices, installedBy, intervals,
                    pendingGets, submits, deletes, localTrades, serverTrades, nextId, nOps,
                    dashFrame >>

\* The stock-price request of invocation i failed: the catch block stores a
\* mock price m and the loop goes on.
FetchFail(i, m) ==
    /\ i \in 1..Len(cycles)
    /\ cycles[i].pc = "await"
    /\ m \in MockQuotes(cycles[i].tickers[cycles[i].idx])
    /\ LET c == cycles[i] IN
       Advance(i, CatchStore(c.prices, c.tickers[c.idx], m), c.failed \cup {c.tickers[c.idx]})
    /\ UNCHANGED << mounted, loading, trades, intervals, pendingGets, submits,
                    deletes, localTrades, serverTrades, nextId, nOps,
                    dashFrame >>

\* The stock-price request of invocation i never settles: axios.get is
\* called without a timeout.
Hang(i) ==
    /\ i \in 1..Len(cycles)
    /\ cycles[i].pc = "await"
    /\ cycles' = [cycles EXCEPT ![i] = [@ EXCEPT !.pc = "hung"]]
    /\ UNCHANGED << mounted, loading, trades, stockPrices, installedBy, intervals,
                    pendingGets, submits, deletes, localTrades, serverTrades, nextId, nOps,
                    dashFrame >>

\* The Dashboard is unmounted (logout): the effect cleanup clears the interval.
Unmount ==
    /\ mounted /\ ~loading
    /\ mounted' = FALSE
    /\ intervals' = <<>>
    /\ cycles' = IF Len(intervals) > 0 THEN MarkStale(cycles) ELSE cycles
    /\ UNCHANGED << loading, trades, stockPrices, installedBy, pendingGets,
                    submits, deletes, localTrades, serverTrades, nextId, nOps,
                    dashFrame >>

Next ==
    \/ FetchTradesOk
    \/ FetchTradesFail
    \/ \E tk \in FormTickers : SubmitStart(tk)
    \/ \E s \in submits, ok \in BOOLEAN : SubmitFinish(s, ok)
    \/ \E id \in { trades[k].id : k \in 1..Len(trades) } : DeleteStart(id)
    \/ \E d \in deletes, ok \in BOOLEAN : DeleteFinish(d, ok)
    \/ Tick
    \/ ManualRefresh
    \/ \E i \in 1..MaxCycles, p \in ApiPrices : FetchOk(i, p)
    \/ \E i \in 1..MaxCycles, m \in {172, 249} : FetchFail(i, m)
    \/ Unmount

Spec == Init /\ [][Next]_vars

\* A stock-price request that is not hung settles eventually, and so do the
\* trade requests; timers, clicks and the unmount are under no obligation.
Settle(i) == (\E p \in ApiPrices : FetchOk(i, p)) \/ (\E m \in {172, 249} : FetchFail(i, m))

\* Next with the requests that never settle made explicit, so that fairness
\* can leave them out.
NextHang == Next \/ \E i \in 1..MaxCycles : Hang(i)

FairSpec ==
    /\ Init /\ [][NextHang]_vars
    /\ \A i \in 1..MaxCycles : WF_vars(Settle(i))
    /\ WF_vars(FetchTradesOk \/ FetchTradesFail)

\* ======================================================== claims
TickersOf(tr) == { tr[i].ticker : i \in 1..Len(tr) }

NoDuplicates(s) == \A a, b \in 1..Len(s) : s[a] = s[b] => a = b

\* ---- C1
\* C1 (as stated): in the mapping installed by a tick, a ticker whose fetch
\* failed in that tick has no entry, so its trades read 'Price unavailable'.
C1_FailedTickerAbsent ==
    installedBy # 0 =>
        \A t \in cycles[installedBy].failed :
            t \notin DOMAIN stockPrices /\ PriceUnavailable(stockPrices, t)

\* C1 (amended): in the mapping installed by a tick, a ticker whose fetch
\* failed in that tick has an entry holding a mock price produced by that
\* tick's catch block, and its trades do not read 'Price unavailable'.
C1_FailedTickerGetsMock ==
    installedBy # 0 =>
        \A t \in cycles[installedBy].failed :
            /\ t \in DOMAIN stockPrices
            /\ stockPrices[t] \in MockQuotes(t)
            /\ ~PriceUnavailable(stockPrices, t)

\* Tick 1 succeeded for both tickers, tick 2 failed for XYZ only and installed.
C1_Witness ==
    /\ Len(cycles) = 2 /\ installedBy = 2
    /\ cycles[1].pc = "done" /\ cycles[1].failed = {}
    /\ cycles[1].tickers = <<"AAPL", "XYZ">>
    /\ cycles[2].origin = "timer"
    /\ cycles[2].failed = {"XYZ"}
    /\ DOMAIN stockPrices = {"AAPL", "XYZ"}

\* ---- C2
\* C2: when an invocation started before the cycle was stopped finishes, the
\* quote mapping stays what it was (its result is discarded).
C2_StoppedCycleResultDiscarded ==
    [][ \A i \in 1..Len(cycles) :
          (cycles[i].stale /\ cycles[i].pc # "done" /\ cycles'[i].pc = "done")
              => stockPrices' = stockPrices ]_vars

\* ---- C3
\* C3: an invocation started before the cycle was stopped issues no further
\* stock-price request, and a cleared timer starts no invocation.
C3_NoRequestAfterStop ==
    [][ /\ \A i \in 1..Len(cycles) :
             cycles[i].stale => cycles'[i].requested = cycles[i].requested
        /\ (Len(intervals) = 0 /\ Len(cycles') > Len(cycles))
             => cycles'[Len(cycles')].origin # "timer" ]_vars

\* ---- C4
\* C4: the quote mapping is the initial empty mapping or exactly the complete
\* mapping of one finished invocation, with one entry per distinct ticker of it.
C4_MappingFromOneTick ==
    \/ stockPrices = EmptyMap
    \/ /\ installedBy \in 1..Len(cycles)
       /\ cycles[installedBy].pc = "done"
       /\ stockPrices = cycles[installedBy].prices
       /\ DOMAIN stockPrices = Range(cycles[installedBy].tickers)

\* A complete mapping is installed while another invocation is part-way
\* through its own, different, mapping.
C4_Witness ==
    /\ Cardinality(DOMAIN stockPrices) = 2
    /\ \E j \in 1..Len(cycles) :
          /\ j # installedBy
          /\ cycles[j].pc = "await"
          /\ cycles[j].prices # EmptyMap
          /\ \E t \in DOMAIN cycles[j].prices : cycles[j].prices[t] # stockPrices[t]

\* ---- C5
\* C5: an interval timer is active exactly when the Dashboard is mounted and
\* the trade list is non-empty.
C5_TimerIffTradesAndMounted ==
    (Len(intervals) > 0) <=> (mounted /\ Len(trades) > 0)

\* The list was non-empty (the effect fetched) and is now empty: timer cleared.
C5_Witness ==
    /\ mounted /\ trades = <<>> /\ intervals = <<>>
    /\ \E i \in 1..Len(cycles) : cycles[i].origin = "effect"
    /\ nOps > 0 /\ deletes = {} /\ submits = {}

C7_ManualRefreshFrame ==
    [][ (Len(cycles') > Len(cycles) /\ cycles'[Len(cycles')].origin = "manual") =>
          /\ Len(cycles') = Len(cycles) + 1
          /\ \A i \in 1..Len(cycles) : cycles'[i] = cycles[i]
          /\ cycles'[Len(cycles')].closure = trades
          /\ intervals' = intervals
          /\ trades' = trades ]_vars

\* A manual invocation is running next to the armed timer.
C7_Witness ==
    /\ Len(intervals) = 1
    /\ \E i \in 1..Len(cycles) : cycles[i].origin = "manual" /\ cycles[i].pc = "await"

\* ---- C8
\* C8: the step in which a ticker's fetch fails requests the next ticker of
\* the invocation, or, after the last ticker, installs the mapping.
C8_FailureDoesNotAbort ==
    [][ \A i \in 1..Len(cycles) :
          (cycles'[i].failed # cycles[i].failed) =>
             IF cycles[i].idx < Len(cycles[i].tickers)
             THEN /\ cycles'[i].pc = "await"
                  /\ cycles'[i].requested =
                        Append(cycles[i].requested, cycles[i].tickers[cycles[i].idx + 1])
             ELSE /\ cycles'[i].pc = "done"
                  /\ mounted => (stockPrices' = cycles'[i].prices /\ installedBy' = i) ]_vars

\* The first ticker failed, the second was still fetched, the mapping installed.
C8_Witness ==
    \E i \in 1..Len(cycles) :
        /\ cycles[i].pc = "done" /\ installedBy = i
        /\ Len(cycles[i].tickers) = 2
        /\ cycles[i].failed = { cycles[i].tickers[1] }
        /\ cycles[i].requested = cycles[i].tickers
        /\ stockPrices[cycles[i].tickers[2]] \in ApiPrices

\* ---- C9
\* C9: an invocation one of whose requests hangs while other tickers are still
\* to be fetched eventually has requested all its tickers and installed its
\* mapping.
C9_Hung(i) ==
    IF i <= Len(cycles)
    THEN cycles[i].pc = "hung" /\ cycles[i].idx < Len(cycles[i].tickers)
    ELSE FALSE

C9_Completed(i) ==
    IF i <= Len(cycles)
    THEN cycles[i].pc = "done" /\ cycles[i].requested = cycles[i].tickers
    ELSE FALSE

C9_HungFetchDoesNotBlock == \A i \in 1..MaxCycles : C9_Hung(i) ~> C9_Completed(i)

\* ---- C10
\* C10: an invocation requests no ticker twice and none outside the trades it
\* was started with; its requests are the distinct tickers of those trades in
\* first-occurrence order up to the one being awaited, all of them once done.
C10_EachDistinctTickerOnce ==
    \A i \in 1..Len(cycles) :
        LET c == cycles[i] IN
        /\ NoDuplicates(c.requested)
        /\ Range(c.requested) \subseteq TickersOf(c.closure)
        /\ c.pc = "done" => Range(c.requested) = TickersOf(c.closure)
        /\ c.pc # "done" => Len(c.requested) = c.idx

\* Three trades, two of them on the same ticker: two requests in all.
C10_Witness ==
    \E i \in 1..Len(cycles) :
        /\ cycles[i].pc = "done"
        /\ Len(cycles[i].closure) = 3
        /\ cycles[i].requested = <<"AAPL", "XYZ">>

\* ================================================= calculateAlertStatus
\* Amounts are in hundredths (10000 is 100.00); the comparisons of pctDiff
\* with a threshold are done on exact values, by cross-multiplication.

\* Rows the table can hold: both trade types, strikes 100.00 and 25.00, and
\* the strikes 0 and -50.00 that the form lets through.
ClsTrades ==
    { [trade_type |-> ty, strike_price |-> k] :
          ty \in {"put", "call"}, k \in {10000, 2500, 0, -5000} }

\* Numbers stockPrices[trade.ticker] can hold.
ClsPrices ==
    { 0, 1900, 2000, 2001, 2125, 2250, 2375, 2450, 2475, 2476, 2500, 2600,
      7900, 8000, 8001, 8500, 8501, 9000, 9001, 9500, 9501, 9700,
      9800, 9801, 9900, 9901, 10000, 10001, 12000 }

ClsInputs == { <<>> } \cup { <<p>> : p \in ClsPrices }

\* ((strike - currentPrice) / strike) * 100 >= th, for a non-zero price.
\* Division by a negative strike turns the comparison round; division by the
\* strike 0 gives -Infinity for a positive price, +Infinity for a negative one.
PctGE(strike, price, th) ==
    IF strike > 0 THEN (strike - price) * 100 >= th * strike
    ELSE IF strike < 0 THEN (strike - price) * 100 <= th * strike
    ELSE price < 0

\* ((strike - currentPrice) / strike) * 100 <= th, likewise.
PctLE(strike, price, th) ==
    IF strike > 0 THEN (strike - price) * 100 <= th * strike
    ELSE IF strike < 0 THEN (strike - price) * 100 >= th * strike
    ELSE price > 0

Status(l, m) == [level |-> l, message |-> m]

\* A plausible slip: a row without a price is shown as safe.
calculateAlertStatusAbsentSafe(trade, currentPrice) ==
    IF currentPrice = <<>> THEN Status("safe", "Safe")
    ELSE IF currentPrice[1] = 0 THEN Status("none", "Price unavailable")
    ELSE LET k == trade.strike_price
             p == currentPrice[1] IN
         IF trade.trade_type = "put"
         THEN IF PctGE(k, p, 20) THEN Status("critical", "20%+ below")
              ELSE IF PctGE(k, p, 15) THEN Status("high", "15%+ below")
              ELSE IF PctGE(k, p, 10) THEN Status("medium", "10%+ below")
              ELSE IF PctGE(k, p, 5) THEN Status("low", "5%+ below")
              ELSE Status("safe", "Safe")
         ELSE IF PctLE(k, p, 1) /\ PctGE(k, p, 0) THEN Status("critical", "Within 1%")
              ELSE IF PctLE(k, p, 2) /\ PctGE(k, p, 0) THEN Status("high", "Within 2%")
              ELSE Status("safe", "Safe")

\* calculateAlertStatus(trade, currentPrice).  !currentPrice is true of
\* undefined and of the number 0.
calculateAlertStatus(trade, currentPrice) ==
    IF currentPrice = <<>> \/ currentPrice[1] = 0
    THEN Status("none", "Price unavailable")
    ELSE LET k == trade.strike_price
             p == currentPrice[1] IN
         IF trade.trade_type = "put"
         THEN IF PctGE(k, p, 20) THEN Status("critical", "20%+ below")
              ELSE IF PctGE(k, p, 15) THEN Status("high", "15%+ below")
              ELSE IF PctGE(k, p, 10) THEN Status("medium", "10%+ below")
              ELSE IF PctGE(k, p, 5) THEN Status("low", "5%+ below")
              ELSE Status("safe", "Safe")
         ELSE IF PctLE(k, p, 1) /\ PctGE(k, p, 0) THEN Status("critical", "Within 1%")
              ELSE IF PctLE(k, p, 2) /\ PctGE(k, p, 0) THEN Status("high", "Within 2%")
              ELSE Status("safe", "Safe")

\* The Dashboard has loaded; the table is about to render a row.
InitCls ==
    /\ mounted = TRUE
    /\ loading = FALSE
    /\ trades = <<>>
    /\ stockPrices = EmptyMap
    /\ intervals = <<>>
    /\ cycles = <<>>
    /\ installedBy = 0
    /\ pendingGets = 0
    /\ submits = {}
    /\ deletes = {}
    /\ localTrades = <<>>
    /\ serverTrades = <<>>
    /\ nextId = 1
    /\ nOps = 0
    /\ clsTrade \in ClsTrades
    /\ clsPrice = <<>>
    /\ clsStatus = calculateAlertStatus(clsTrade, clsPrice)
    /\ FormIdle
    /\ AppIdle

\* trades.map: a row is rendered for trade t whose ticker has the price cp.
RenderRow(t, cp) ==
    /\ clsTrade' = t
    /\ clsPrice' = cp
    /\ clsStatus' = calculateAlertStatus(t, cp)
    /\ UNCHANGED << dashVars, formVars, appVars >>

NextCls == \E t \in ClsTrades, cp \in ClsInputs : RenderRow(t, cp)

SpecClassify == InitCls /\ [][NextCls]_vars

\* ---- C11
\* The level the put thresholds give to pctDiff = (strike - price)/strike*100.
C11_PutLevel(strike, price) ==
    IF (strike - price) * 100 >= 20 * strike THEN "critical"
    ELSE IF (strike - price) * 100 >= 15 * strike THEN "high"
    ELSE IF (strike - price) * 100 >= 10 * strike THEN "medium"
    ELSE IF (strike - price) * 100 >= 5 * strike THEN "low"
    ELSE "safe"

\* C11: a put row with strike > 0 and a present price has the level of the
\* descending thresholds 20, 15, 10, 5, each bound inclusive.
C11_PutThresholds ==
    (clsTrade.trade_type = "put" /\ clsTrade.strike_price > 0 /\ clsPrice # <<>>)
        => clsStatus.level = C11_PutLevel(clsTrade.strike_price, clsPrice[1])

\* ---- C12
\* C12: a call row with strike > 0 and a present price is critical for
\* 0 <= pctDiff <= 1, high for 1 < pctDiff <= 2 and safe otherwise.
C12_CallThresholds ==
    (clsTrade.trade_type = "call" /\ clsTrade.strike_price > 0 /\ clsPrice # <<>>)
        => LET k == clsTrade.strike_price
               d == (clsTrade.strike_price - clsPrice[1]) * 100 IN
           clsStatus.level =
               IF 0 <= d /\ d <= k THEN "critical"
               ELSE IF k < d /\ d <= 2 * k THEN "high"
               ELSE "safe"

\* ---- C13
\* C13: a row whose price is absent has level none and the message
\* 'Price unavailable', whatever its trade type and strike.
C13_AbsentPriceIsNone ==
    clsPrice = <<>> => clsStatus = Status("none", "Price unavailable")

\* A call row with the strike 0 was rendered without a price.
C13_Witness ==
    /\ clsPrice = <<>>
    /\ clsTrade = [trade_type |-> "call", strike_price |-> 0]
    /\ clsStatus.level = "none"

\* ---- C14
C14_Severity(l) ==
    CASE l = "none" -> 0 [] l = "safe" -> 1 [] l = "low" -> 2
      [] l = "medium" -> 3 [] l = "high" -> 4 [] l = "critical" -> 5

\* C14: for a put row with strike > 0 and a present price p1, every present
\* price p2 >= p1 gives a level that is not more severe than the row's.
C14_PutMonotonic ==
    (clsTrade.trade_type = "put" /\ clsTrade.strike_price > 0 /\ clsPrice # <<>>)
        => \A p2 \in ClsPrices :
              clsPrice[1] <= p2 =>
                 C14_Severity(clsStatus.level) >=
                    C14_Severity(calculateAlertStatus(clsTrade, <<p2>>).level)

\* ====================================================== add-trade form
\* The trade list with its form, checked apart from the price cycle: the
\* [trades] effect writes the timer and stockPrices only, never trades,
\* localStorage or the form, and it is left out of this specification.
\* Trades here carry their strike (in hundredths) and the ghost field typed.

MaxFormOps == 2

\* Texts the user types into the ticker input.
TypedTickers == {"aapl"}

\* Values of the strike input (type="number", step 0.01, no min).
StrikeTexts == {"150", "0", "-5"}

\* Values of the expiry input (type="date").
ExpiryTexts == {"2026-12-18"}

\* Trade lists the backend holds when the Dashboard mounts.
FormServerLists ==
    { <<>>,
      << [id |-> 201, ticker |-> "AAPL", typed |-> "AAPL", strike_price |-> 15000],
         [id |-> 202, ticker |-> "AAPL", typed |-> "AAPL", strike_price |-> 15000] >> }

\* A plausible slip: the text is kept as typed.
toUpperCaseIdentity(x) == x

\* String.prototype.toUpperCase on the texts of the model.
toUpperCase(x) == CASE x = "aapl" -> "AAPL" [] OTHER -> x

\* parseFloat on the texts of the model, in hundredths.
parseFloat(x) == CASE x = "150" -> 15000 [] x = "0" -> 0 [] x = "-5" -> -500

\* A plausible slip: the expiry date is not required.
FormInvalidNoExpiry(fd) == fd.ticker = "" \/ fd.strike_price = ""

\* !formData.ticker || !formData.strike_price || !formData.expiry_date: only
\* the empty string is falsy, "0" and "-5" are not.
FormInvalid(fd) == fd.ticker = "" \/ fd.strike_price = "" \/ fd.expiry_date = ""

\* The newTrade of handleSubmit.
NewTrade(fd, id) ==
    [id |-> id, ticker |-> toUpperCase(fd.ticker), typed |-> fd.typed,
     strike_price |-> parseFloat(fd.strike_price)]

\* The document the backend makes of a POSTed formData.
ServerTrade(fd, id) ==
    [id |-> 100 + id, ticker |-> fd.ticker, typed |-> fd.typed,
     strike_price |-> parseFloat(fd.strike_price)]

WithoutId(tr, id) == SelectSeq(tr, LAMBDA t : t.id # id)

\* What the form and the trade-list handlers leave alone.
formFrame == << mounted, stockPrices, intervals, cycles, installedBy, clsVars, appVars >>

InitForm ==
    /\ mounted = TRUE
    /\ loading = TRUE
    /\ trades = <<>>
    /\ stockPrices = EmptyMap
    /\ intervals = <<>>
    /\ cycles = <<>>
    /\ installedBy = 0
    /\ pendingGets = 1
    /\ submits = {}
    /\ deletes = {}
    /\ localTrades = <<>>
    /\ serverTrades \in FormServerLists
    /\ nextId = 1
    /\ nOps = 0
    /\ ClsIdle
    /\ FormIdle
    /\ AppIdle

\* GET /trades answered.
FormFetchTradesOk ==
    /\ pendingGets > 0
    /\ pendingGets' = pendingGets - 1
    /\ trades' = serverTrades
    /\ localTrades' = <<serverTrades>>
    /\ loading' = FALSE
    /\ UNCHANGED << submits, deletes, serverTrades, nextId, nOps, formVars, formFrame >>

\* GET /trades failed: the localStorage copy, or [].
FormFetchTradesFail ==
    /\ pendingGets > 0
    /\ pendingGets' = pendingGets - 1
    /\ trades' = IF localTrades # <<>> THEN localTrades[1] ELSE <<>>
    /\ loading' = FALSE
    /\ UNCHANGED << submits, deletes, localTrades, serverTrades, nextId, nOps,
                    formVars, formFrame >>

\* The Add Trade button.
OpenDialog ==
    /\ ~loading
    /\ ~dialogOpen
    /\ dialogOpen' = TRUE
    /\ UNCHANGED << loading, trades, pendingGets, submits, deletes, localTrades,
                    serverTrades, nextId, nOps, formData, toast, formFrame >>

\* onChange of the ticker input.
ChangeTicker(tx) ==
    /\ dialogOpen
    /\ formData' = [formData EXCEPT !.ticker = toUpperCase(tx), !.typed = tx]
    /\ UNCHANGED << loading, trades, pendingGets, submits, deletes, localTrades,
                    serverTrades, nextId, nOps, dialogOpen, toast, formFrame >>

\* onChange of the strike input.
ChangeStrike(sx) ==
    /\ dialogOpen
    /\ formData' = [formData EXCEPT !.strike_price = sx]
    /\ UNCHANGED << loading, trades, pendingGets, submits, deletes, localTrades,
                    serverTrades, nextId, nOps, dialogOpen, toast, formFrame >>

\* onChange of the expiry input.
ChangeExpiry(dx) ==
    /\ dialogOpen
    /\ formData' = [formData EXCEPT !.expiry_date = dx]
    /\ UNCHANGED << loading, trades, pendingGets, submits, deletes, localTrades,
                    serverTrades, nextId, nOps, dialogOpen, toast, formFrame >>

\* The error toast disappears after its display time.
DismissToast ==
    /\ toast # ""
    /\ toast' = ""
    /\ UNCHANGED << loading, trades, pendingGets, submits, deletes, localTrades,
                    serverTrades, nextId, nOps, formData, dialogOpen, formFrame >>

\* handleSubmit with a required field empty: toast.error and return.
FormSubmitReject ==
    /\ dialogOpen
    /\ FormInvalid(formData)
    /\ toast' = "Please fill in all required fields"
    /\ UNCHANGED << loading, trades, pendingGets, submits, deletes, localTrades,
                    serverTrades, nextId, nOps, formData, dialogOpen, formFrame >>

\* handleSubmit with the required fields filled: newTrade is built and
\* formData is POSTed.  The handler keeps the trades and formData of its render.
FormSubmitPost ==
    /\ dialogOpen
    /\ ~FormInvalid(formData)
    /\ nOps < MaxFormOps
    /\ submits' = submits \cup
          { [closure |-> trades, newTrade |-> NewTrade(formData, nextId), body |-> formData] }
    /\ nextId' = nextId + 1
    /\ nOps' = nOps + 1
    /\ UNCHANGED << loading, trades, pendingGets, deletes, localTrades, serverTrades,
                    formVars, formFrame >>

\* The POST settled: setTrades([...trades, newTrade]), localStorage,
\* form reset, dialog closed, fetchTrades().
FormSubmitSettled(sb, ok) ==
    /\ sb \in submits
    /\ submits' = submits \ {sb}
    /\ serverTrades' = IF ok THEN Append(serverTrades, ServerTrade(sb.body, sb.newTrade.id))
                       ELSE serverTrades
    /\ trades' = Append(sb.closure, sb.newTrade)
    /\ localTrades' = << Append(sb.closure, sb.newTrade) >>
    /\ formData' = EmptyForm
    /\ dialogOpen' = FALSE
    /\ pendingGets' = pendingGets + 1
    /\ UNCHANGED << loading, deletes, nextId, nOps, toast, formFrame >>

\* The delete button of a row: the DELETE is sent.
FormDeleteClick(id) ==
    /\ ~loading
    /\ \E i \in 1..Len(trades) : trades[i].id = id
    /\ nOps < MaxFormOps
    /\ nOps' = nOps + 1
    /\ deletes' = deletes \cup { [closure |-> trades, id |-> id] }
    /\ UNCHANGED << loading, trades, pendingGets, submits, localTrades, serverTrades,
                    nextId, formVars, formFrame >>

\* The DELETE settled: setTrades(trades.filter(...)), localStorage.
FormDeleteSettled(d, ok) ==
    /\ d \in deletes
    /\ deletes' = deletes \ {d}
    /\ serverTrades' = IF ok THEN WithoutId(serverTrades, d.id) ELSE serverTrades
    /\ trades' = WithoutId(d.closure, d.id)
    /\ localTrades' = << WithoutId(d.closure, d.id) >>
    /\ UNCHANGED << loading, pendingGets, submits, nextId, nOps, formVars, formFrame >>

NextForm ==
    \/ FormFetchTradesOk
    \/ FormFetchTradesFail
    \/ OpenDialog
    \/ \E tx \in TypedTickers : ChangeTicker(tx)
    \/ \E sx \in StrikeTexts : ChangeStrike(sx)
    \/ \E dx \in ExpiryTexts : ChangeExpiry(dx)
    \/ DismissToast
    \/ FormSubmitReject
    \/ FormSubmitPost
    \/ \E sb \in submits, ok \in BOOLEAN : FormSubmitSettled(sb, ok)
    \/ \E id \in {1, 2, 3, 101, 102, 103, 201, 202} : FormDeleteClick(id)
    \/ \E d \in deletes, ok \in BOOLEAN : FormDeleteSettled(d, ok)

SpecForm == InitForm /\ [][NextForm]_vars

\* ---- C15
\* C15: every trade of the tracked list has a strike above 0.
C15_StrikePositive ==
    \A i \in 1..Len(trades) : trades[i].strike_price > 0

\* ---- C16
\* Tickers in upper case.
UpperCaseTickers == {"AAPL", "XYZ"}

\* The text in lower case, for comparing without regard to case.
LowerCase(x) == CASE x = "AAPL" -> "aapl" [] x = "XYZ" -> "xyz" [] OTHER -> x

\* C16: every tracked ticker is in upper case; trades whose tickers were
\* entered with the same letters in any case have the same stored ticker, so
\* they read the same stockPrices entry; and the distinct-ticker list of a
\* tick holds no two tickers that differ only in case.
C16_UppercaseTickers ==
    /\ \A i \in 1..Len(trades) : trades[i].ticker \in UpperCaseTickers
    /\ \A i, j \in 1..Len(trades) :
          LowerCase(trades[i].typed) = LowerCase(trades[j].typed)
              => trades[i].ticker = trades[j].ticker
    /\ \A a, b \in 1..Len(UniqueTickers(trades)) :
          LowerCase(UniqueTickers(trades)[a]) = LowerCase(UniqueTickers(trades)[b])
              => a = b

\* A trade entered as aapl is tracked next to one entered as AAPL, and the
\* two make one distinct ticker.
C16_Witness ==
    /\ \E i, j \in 1..Len(trades) :
          /\ trades[i].typed = "aapl"
          /\ trades[j].typed = "AAPL"
          /\ trades[i].ticker = trades[j].ticker
    /\ UniqueTickers(trades) = <<"AAPL">>

\* ---- C17
\* C17: when a handleDelete(id) finishes, the tracked list is the list of the
\* moment before without the entries of that id, every other entry unchanged;
\* when a handleSubmit finishes, its trade is an entry of its own at the end.
C17_DeleteRemovesOnlyThatId ==
    [][ /\ \A d \in deletes :
              (deletes' = deletes \ {d}) => trades' = WithoutId(trades, d.id)
        /\ \A sb \in submits :
              (submits' = submits \ {sb}) =>
                  (Len(trades') > 0 /\ trades'[Len(trades')] = sb.newTrade) ]_vars

\* ---- C19
\* C19: from a form with an empty ticker, strike or expiry no submission is
\* sent, and the step in which handleSubmit rejects it leaves the tracked
\* list, localStorage, the backend, the requests in flight, the form data
\* and the dialog-open flag as they were.
C19_RejectedSubmitChangesNothing ==
    [][ (dialogOpen /\ (formData.ticker = "" \/ formData.strike_price = ""
                          \/ formData.expiry_date = ""))
          => /\ submits' \subseteq submits
             /\ nextId' = nextId
             /\ (toast' = "Please fill in all required fields" /\ toast # toast')
                   => UNCHANGED << trades, localTrades, serverTrades, submits, deletes,
                                   pendingGets, formData, dialogOpen >> ]_vars

\* A form with ticker and strike but no expiry date was rejected.
C19_Witness ==
    /\ toast = "Please fill in all required fields"
    /\ dialogOpen
    /\ formData.ticker # "" /\ formData.strike_price # "" /\ formData.expiry_date = ""
    /\ submits = {} /\ nextId = 1 /\ pendingGets = 0

\* ---- C20
\* C20: when the fetchTrades called at the end of the only handleSubmit so far
\* has finished, the submitted trade (id 1 as built by the handler, 101 as
\* stored by the backend) is in the tracked list and in localStorage.
C20_SubmittedTradeKept ==
    [][ (mounted /\ nOps = 1 /\ nextId = 2 /\ submits = {}
           /\ pendingGets = 1 /\ pendingGets' = 0)
          => /\ \E i \in 1..Len(trades') : trades'[i].id \in {1, 101}
             /\ localTrades' # <<>>
             /\ \E i \in 1..Len(localTrades'[1]) : localTrades'[1][i].id \in {1, 101} ]_vars

\* ================================================================= App
MaxLogins == 4

\* localStorage as earlier visits can have left it: never visited, a guest
\* whose token request had failed, a guest with a token, a registered user.
AppStorages ==
    { << <<>>, <<>> >>,
      << <<>>, <<"guest", 0>> >>,
      << <<"guest_token">>, <<"guest", 0>> >>,
      << <<"user_token">>, <<"email">> >> }

\* The Dashboard part of the state, which App's own steps leave alone.
DashIdle ==
    /\ mounted = TRUE
    /\ loading = FALSE
    /\ trades = <<>>
    /\ stockPrices = EmptyMap
    /\ intervals = <<>>
    /\ cycles = <<>>
    /\ installedBy = 0
    /\ pendingGets = 0
    /\ submits = {}
    /\ deletes = {}
    /\ localTrades = <<>>
    /\ serverTrades = <<>>
    /\ nextId = 1
    /\ nOps = 0

\* App is rendered with a user: the Dashboard is on screen.
DashboardShown == ~appLoading /\ userId # <<>>

\* App has rendered for the first time and its [token] effect has run:
\* without a token the guest-token request is in flight, with one loading is off.
InitApp ==
    /\ \E st \in AppStorages : lsToken = st[1] /\ lsUserId = st[2]
    /\ token = lsToken
    /\ userId = lsUserId
    /\ isGuest = FALSE
    /\ appLoading = (token = <<>>)
    /\ guestFetches = IF token = <<>> THEN 1 ELSE 0
    /\ registers = 0
    /\ now = 1
    /\ nLogins = 0
    /\ DashIdle
    /\ ClsIdle
    /\ FormIdle

\* The guest-token request resolved: the .then callback, followed by the
\* [token] effect, which finds a token and calls setLoading(false).
GuestTokenOk ==
    /\ guestFetches > 0
    /\ guestFetches' = guestFetches - 1
    /\ token' = <<"guest_token">>
    /\ userId' = <<"guest", now>>
    /\ now' = now + 1
    /\ isGuest' = TRUE
    /\ lsToken' = <<"guest_token">>
    /\ lsUserId' = <<"guest", now>>
    /\ appLoading' = FALSE
    /\ UNCHANGED << registers, nLogins, dashVars, clsVars, formVars >>

\* A plausible slip: the catch callback only ends the loading screen.
GuestTokenFailNoGuest ==
    /\ guestFetches > 0
    /\ guestFetches' = guestFetches - 1
    /\ appLoading' = FALSE
    /\ UNCHANGED << token, userId, isGuest, lsToken, lsUserId, now,
                    registers, nLogins, dashVars, clsVars, formVars >>

\* The guest-token request failed: the .catch callback, followed by the
\* [token] effect.
GuestTokenFail ==
    /\ guestFetches > 0
    /\ guestFetches' = guestFetches - 1
    /\ userId' = <<"guest", now>>
    /\ now' = now + 1
    /\ isGuest' = TRUE
    /\ token' = <<"guest_temp">>
    /\ lsUserId' = <<"guest", now>>
    /\ appLoading' = FALSE
    /\ UNCHANGED << lsToken, registers, nLogins, dashVars, clsVars, formVars >>

\* The Create Account button of a guest's Dashboard: POST /auth/register.
RegisterClick ==
    /\ DashboardShown
    /\ isGuest
    /\ nLogins < MaxLogins
    /\ nLogins' = nLogins + 1
    /\ registers' = registers + 1
    /\ UNCHANGED << token, userId, isGuest, appLoading, guestFetches,
                    lsToken, lsUserId, now, dashVars, clsVars, formVars >>

\* The register request resolved: onLogin(access_token, email), that is
\* handleLogin, followed by the [token] effect when the token changed.
RegisterOk ==
    /\ registers > 0
    /\ registers' = registers - 1
    /\ token' = <<"user_token">>
    /\ userId' = <<"email">>
    /\ isGuest' = FALSE
    /\ lsToken' = <<"user_token">>
    /\ lsUserId' = <<"email">>
    /\ appLoading' = IF token # <<"user_token">> THEN FALSE ELSE appLoading
    /\ UNCHANGED << guestFetches, now, nLogins, dashVars, clsVars, formVars >>

\* The register request failed: an error toast, nothing else.
RegisterFail ==
    /\ registers > 0
    /\ registers' = registers - 1
    /\ UNCHANGED << token, userId, isGuest, appLoading, guestFetches,
                    lsToken, lsUserId, now, nLogins, dashVars, clsVars, formVars >>

\* handleLogout, from the Logout button of a registered user's Dashboard,
\* followed by the [token] effect, which sends a guest-token request.
Logout ==
    /\ DashboardShown
    /\ ~isGuest
    /\ token' = <<>>
    /\ userId' = <<>>
    /\ isGuest' = FALSE
    /\ lsToken' = <<>>
    /\ lsUserId' = <<>>
    /\ guestFetches' = IF token # <<>> THEN guestFetches + 1 ELSE guestFetches
    /\ UNCHANGED << appLoading, registers, now, nLogins, dashVars, clsVars, formVars >>

NextApp ==
    \/ GuestTokenOk
    \/ GuestTokenFail
    \/ RegisterClick
    \/ RegisterOk
    \/ RegisterFail
    \/ Logout

\* Every guest-token request settles, one way or the other.
SpecApp == InitApp /\ [][NextApp]_vars /\ WF_vars(GuestTokenOk \/ GuestTokenFail)

\* ---- C18
\* The Dashboard of a guest is on screen.
C18_GuestShown ==
    IF userId = <<>> THEN FALSE
    ELSE userId[1] = "guest" /\ isGuest /\ ~appLoading

\* C18: whenever App has no token, it eventually shows the Dashboard to a
\* guest: loading off, userId guest_<n>, isGuest true.
C18_GuestModeReached == (token = <<>>) ~> C18_GuestShown

\* After a logout the guest-token request failed and the guest is in.
C18_Witness ==
    /\ C18_GuestShown
    /\ token = <<"guest_temp">>
    /\ lsToken = <<>>
    /\ nLogins > 0

\* ---- C21
\* C21: a rendered row has the level none only when its price is absent; a
\* row with strike > 0 and a present price, the price 0 included, has one of
\* the levels safe, low, medium, high, critical.
C21_NoneOnlyWhenAbsent ==
    (clsTrade.strike_price > 0 /\ clsPrice # <<>>)
        => /\ clsStatus.level # "none"
           /\ clsStatus.level \in {"safe", "low", "medium", "high", "critical"}

\* ---- C22
\* C22: at most one recurring refresh timer is active in every state.
C22_AtMostOneTimer == Len(intervals) <= 1

\* After a delete the [trades] effect has run again for the shorter list:
\* the one timer is that of the current list.
C22_Witness ==
    /\ Len(intervals) = 1
    /\ intervals[1] = trades
    /\ nOps = 1 /\ deletes = {} /\ submits = {} /\ nextId = 1
    /\ Len(trades) = 2
    /\ Len(cycles) = 2

\* ---- C23
\* C23: when an invocation of fetchStockPrices finishes after one that was
\* started later has finished and installed its mapping, the mapping of the
\* later one stays: the earlier invocation does not overwrite it.  Only
\* invocations whose cycle was not stopped in the meantime are considered.
C23_LastStartedWins ==
    [][ \A i, j \in 1..Len(cycles) :
           ( /\ i < j
             /\ Len(cycles') = Len(cycles)
             /\ cycles[j].pc = "done"
             /\ installedBy = j
             /\ cycles[i].pc # "done"
             /\ ~cycles[i].stale
             /\ cycles'[i].pc = "done" )
           => stockPrices' = stockPrices ]_vars

\* ---- C24
\* The ids of a trade list.
C24_Ids(tr) == { tr[i].id : i \in 1..Len(tr) }

\* C24: when a handleSubmit or handleDelete finishes after the tracked list
\* was changed during its API call, the list keeps that change: a submit
\* adds its trade to the list of the moment, a delete takes only its id out
\* of it and brings no deleted trade back; localStorage equals the list.
C24_NoLostUpdate ==
    [][ /\ \A sb \in submits :
              (submits' = submits \ {sb} /\ sb.closure # trades)
                 => /\ trades' = Append(trades, sb.newTrade)
                    /\ localTrades' = <<trades'>>
        /\ \A d \in deletes :
              (deletes' = deletes \ {d} /\ d.closure # trades)
                 => /\ C24_Ids(trades') = C24_Ids(trades) \ {d.id}
                    /\ localTrades' = <<trades'>> ]_vars

====
